---- MODULE Spec2Model ----
(***************************************************************************)
(* galileo-tier-database: cursors over a document collection that encodes  *)
(* doubly linked lists (tier_collection.rs), checked against the in-memory *)
(* collection of its tests module.                                         *)
(***************************************************************************)
EXTENDS Integers, Sequences, FiniteSets, TLC

(* ---------------------------------------------------------------- bounds *)

\* Identifiers are 1..NumIds; 0 stands for Option::None.
NumIds == 4
\* Cursor variables a caller holds at the same time.
NumSlots == 2
\* Tasks spawned on the executor that share the store.
NumTasks == 2
\* Longest batch handed to write_documents / get_documents.
MaxBatch == 3
\* Longest identifier sequence handed to get_items.
MaxItems == 2

Ids == 1..NumIds
Slots == 1..NumSlots
Tasks == 1..NumTasks
None == 0

(* ------------------------------------------------------------- documents *)

\* tests::Doc { id, next, prev }
Doc(i, n, p) == [id |-> i, next |-> n, prev |-> p]
\* The absence of a document (a key the map does not hold).
NoDoc == Doc(None, None, None)

\* The four documents of tests::test_cursor: id1 alone, id2 <-> id3 <-> id4.
doc1 == Doc(1, None, None)
doc2 == Doc(2, 3, None)
doc3 == Doc(3, 4, 2)
doc4 == Doc(4, None, 3)
\* Another value for id1, whose next link points into the list although
\* id3's previous link does not point back.
doc1b == Doc(1, 3, None)

\* The documents a caller writes.
DocPool == {doc1, doc2, doc3, doc4, doc1b}

\* Document::get_id
get_id(d) == d.id
\* Mutant of get_previous_id: the next link is returned.
get_previous_id_returns_next(d) == d.next

\* LinkedList::get_next_id / get_previous_id (Option<&DocumentId>, 0 = None)
get_next_id(d) == d.next
get_previous_id(d) == d.prev
\* Mutant of is_back: the previous link is looked at.
is_back_reads_previous(d) == get_previous_id(d) = None

\* LinkedList::is_front / is_back
is_front(d) == get_previous_id(d) = None
is_back(d) == get_next_id(d) = None

\* Into<T> for the fetched document; the tests use T = Doc (ref_cursor::<Doc>),
\* for which the conversion is the reflexive impl From<T> for T.
into(d) == d

(* ----------------------------------------------------------- collection *)

\* The values of the collection's associated Error type.
Errors == {"StoreFault"}
NoFault == "none"
Faults == Errors \cup {NoFault}

\* Result<Document, Error>, plus the panic of an unwinding task.
Ok(d) == [tag |-> "Ok", doc |-> d, err |-> NoFault]
Err(e) == [tag |-> "Err", doc |-> NoDoc, err |-> e]
Panic == [tag |-> "Panic", doc |-> NoDoc, err |-> NoFault]

\* HashMap::new()
EmptyMap == [i \in Ids |-> NoDoc]
Present(m, i) == i \in Ids /\ m[i] # NoDoc

\* tests get_document, the body of the poll_fn: coll[&id] copies the document
\* out of the map and panics when the key is absent.
get_document(m, id) == IF Present(m, id) THEN Ok(m[id]) ELSE Panic

\* Mutant of write_document: the document is inserted under the identifier
\* of its next neighbour when it has one.
write_document_under_next(m, d) ==
  [map |-> [m EXCEPT ![IF get_next_id(d) # None THEN get_next_id(d) ELSE get_id(d)] = d],
   res |-> Ok(NoDoc)]

\* Mutant of write_document: a document is inserted only under a new key.
write_document_insert_only(m, d) ==
  [map |-> IF Present(m, get_id(d)) THEN m ELSE [m EXCEPT ![get_id(d)] = d],
   res |-> Ok(NoDoc)]

\* tests write_document, the body of the poll_fn:
\* coll.insert(*document.get_id(), document,); Poll::Ready(Ok(()))
write_document(m, d) == [map |-> [m EXCEPT ![get_id(d)] = d], res |-> Ok(NoDoc)]

\* RefCell::try_borrow / try_borrow_mut on the borrow flag b (0: not
\* borrowed, k > 0: k shared borrows, -1: one exclusive borrow), and the
\* flag once the guard is taken and once it is dropped.
try_borrow(b) == b >= 0
try_borrow_mut(b) == b = 0
Borrowed(b, kind) == IF kind = "write_document" THEN 0 - 1 ELSE b + 1
Dropped(b) == IF b < 0 THEN 0 ELSE b - 1

\* A collection whose Error type is inhabited: a call either fails with a
\* store fault, leaving the map alone, or behaves as the in-memory one.
StoreGet(m, id, fault) == IF fault # NoFault THEN Err(fault) ELSE get_document(m, id)
StoreWrite(m, d, fault) ==
  IF fault # NoFault THEN [map |-> m, res |-> Err(fault)] ELSE write_document(m, d)

(* -------------------------------------------------------- batched calls *)

\* Result<(), Error> of a write.
OkUnit == Ok(NoDoc)

\* Orders in which n concurrent fetches complete: first to last, last to first.
Orders(n) == {[i \in 1..n |-> i], [i \in 1..n |-> n + 1 - i]}

\* Mutant of WriteLoop: the loop stops at the first failed write.
RECURSIVE WriteLoopStopsAtFailure(_, _, _, _, _)
WriteLoopStopsAtFailure(m, docs, faults, results, all_succeeded) ==
  IF docs = <<>> \/ ~all_succeeded
  THEN [map |-> m, results |-> results, all_succeeded |-> all_succeeded]
  ELSE LET w == StoreWrite(m, Head(docs), Head(faults))
       IN WriteLoopStopsAtFailure(w.map, Tail(docs), Tail(faults), Append(results, w.res),
                                  all_succeeded /\ w.res.tag = "Ok")

\* Mutant of WriteLoop: all_succeeded keeps the last result only.
RECURSIVE WriteLoopLastOnly(_, _, _, _, _)
WriteLoopLastOnly(m, docs, faults, results, all_succeeded) ==
  IF docs = <<>> THEN [map |-> m, results |-> results, all_succeeded |-> all_succeeded]
  ELSE LET w == StoreWrite(m, Head(docs), Head(faults))
       IN WriteLoopLastOnly(w.map, Tail(docs), Tail(faults), Append(results, w.res),
                            w.res.tag = "Ok")

\* tests write_documents, the for loop over the write futures:
\*   let res = res.await; all_succeeded = all_succeeded && res.is_ok();
\*   results.push(res,);
RECURSIVE WriteLoop(_, _, _, _, _)
WriteLoop(m, docs, faults, results, all_succeeded) ==
  IF docs = <<>> THEN [map |-> m, results |-> results, all_succeeded |-> all_succeeded]
  ELSE LET w == StoreWrite(m, Head(docs), Head(faults))
       IN WriteLoop(w.map, Tail(docs), Tail(faults), Append(results, w.res),
                    all_succeeded /\ w.res.tag = "Ok")

\* tests write_documents: if all_succeeded { Ok(()) } else { Err(results) }
write_documents(m, docs, faults) ==
  LET r == WriteLoop(m, docs, faults, <<>>, TRUE)
  IN [map |-> r.map,
      tag |-> IF r.all_succeeded THEN "Ok" ELSE "Err",
      results |-> IF r.all_succeeded THEN <<>> ELSE r.results]

\* future::join_all: each output lands in the place of its own future,
\* whatever the order `order` in which the futures complete.
RECURSIVE JoinAll(_, _, _)
JoinAll(slots, outs, order) ==
  IF order = <<>> THEN slots
  ELSE JoinAll([slots EXCEPT ![Head(order)] = outs[Head(order)]], outs, Tail(order))

\* tests get_documents:
\*   Ok(future::join_all(ids.into_iter().map(|id,| coll.get_document(&id,),),).await)
\* A panicking fetch unwinds the whole task.
get_documents(m, ids, faults, order) ==
  LET n == Len(ids)
      outs == [i \in 1..n |-> StoreGet(m, ids[i], faults[i])]
      joined == JoinAll([i \in 1..n |-> Panic], outs, order)
  IN IF \E i \in 1..n : joined[i].tag = "Panic"
     THEN [tag |-> "Panic", results |-> <<>>]
     ELSE [tag |-> "Ok", results |-> joined]

(* ------------------------------------------------------ converting reads *)

\* What TryInto::try_into does with a value: the conversion to the caller's
\* type T accepts it ("into") or rejects it ("reject").
Convs == {"into", "reject"}

\* Result<T, <_ as TryInto<T>>::Error>
TryOk(x) == [tag |-> "Ok", val |-> x, err |-> NoFault]
TryErr == [tag |-> "Err", val |-> NoDoc, err |-> "TryIntoError"]

\* TryInto::try_into
try_into(x, conv) == IF conv = "into" THEN TryOk(x) ELSE TryErr

\* A collection whose batched fetch can fail as a whole (the outer Result of
\* GetBatchDocuments), or else behaves as the in-memory one.
StoreGetDocuments(m, ids, faults, order, bfault) ==
  IF bfault # NoFault THEN [tag |-> "Err", results |-> <<>>, err |-> bfault]
  ELSE LET g == get_documents(m, ids, faults, order)
       IN [tag |-> g.tag, results |-> g.results, err |-> NoFault]

\* get_item: self.get_document(id,).map_ok(|doc,| doc.try_into(),)
get_item(m, id, fault, conv) ==
  LET r == StoreGet(m, id, fault)
  IN IF r.tag = "Ok" THEN [tag |-> "Ok", val |-> try_into(r.doc, conv), err |-> NoFault]
     ELSE [tag |-> r.tag, val |-> TryErr, err |-> r.err]

\* Mutant of get_items: the conversions stop at the first rejected one.
get_items_stops_at_reject(m, ids, faults, order, bfault, convs) ==
  LET g == StoreGetDocuments(m, ids, faults, order, bfault)
      n == Len(g.results)
      stop == IF \E i \in 1..n : convs[i] = "reject"
              THEN CHOOSE i \in 1..n : convs[i] = "reject" /\ \A j \in 1..(i - 1) : convs[j] = "into"
              ELSE n
  IN IF g.tag = "Ok"
     THEN [tag |-> "Ok", err |-> NoFault,
           results |-> [i \in 1..stop |-> try_into(g.results[i], convs[i])]]
     ELSE g

\* get_items: self.get_documents(ids,)
\*   .map_ok(|docs,| docs.into_iter().map(TryInto::try_into,).collect(),)
\* The conversion is applied to each per-item fetch result.
get_items(m, ids, faults, order, bfault, convs) ==
  LET g == StoreGetDocuments(m, ids, faults, order, bfault)
  IN IF g.tag = "Ok"
     THEN [tag |-> "Ok", err |-> NoFault,
           results |-> [i \in 1..Len(g.results) |-> try_into(g.results[i], convs[i])]]
     ELSE g

(* --------------------------------------------------------------- cursor *)

\* The handle on the shared map (the Rc behind `coll`, or a reference to it).
Handles == {"coll"}

\* Cursor::new
Cursor(c, item) == [collection |-> c, item |-> item]
NoCursor == Cursor("none", NoDoc)

MoveOps == {"move_next", "move_previous"}
RefPeekOps == {"ref_next", "ref_previous"}
GetPeekOps == {"get_next", "get_previous"}
PeekOps == RefPeekOps \cup GetPeekOps
NextOps == {"move_next", "ref_next", "get_next"}

\* Mutant of NeighbourId: every operation follows the next link.
NeighbourIdAlwaysNext(op, item) == get_next_id(item)

\* The neighbour identifier an operation reads from the item it is called on.
NeighbourId(op, item) ==
  IF op \in NextOps THEN get_next_id(item) ELSE get_previous_id(item)

\* Mutant of MoveMatch: at the edge of the list the cursor's own document is
\* fetched again instead of returning Err(self).
MoveMatchFetchesAtEdge(op, self) ==
  LET nid == NeighbourId(op, self.item)
      id == IF nid # None THEN nid ELSE get_id(self.item)
  IN [tag |-> "Pending", cursor |-> NoCursor, id |-> id, calls |-> <<id>>]

\* move_next / move_previous, the match on the neighbour identifier:
\*   Some(id) => Ok(self.collection.get_document(id,).map(..)), None => Err(self)
\* `calls` lists the identifiers get_document is called with.
MoveMatch(op, self) ==
  LET nid == NeighbourId(op, self.item)
  IN IF nid # None
     THEN [tag |-> "Pending", cursor |-> NoCursor, id |-> nid, calls |-> <<nid>>]
     ELSE [tag |-> "Edge", cursor |-> self, id |-> None, calls |-> <<>>]

\* Mutant of MoveMap: the successful move takes the new identifier only and
\* keeps the old links.
MoveMapPartialItem(self, res) ==
  CASE res.tag = "Ok" -> [tag |-> "Ok",
                          cursor |-> [self EXCEPT !.item.id = get_id(res.doc)],
                          err |-> NoFault]
    [] res.tag = "Err" -> [tag |-> "Err", cursor |-> self, err |-> res.err]
    [] OTHER -> [tag |-> "Panic", cursor |-> NoCursor, err |-> NoFault]

\* Mutant of MoveMap: the failed move returns the error without the cursor.
MoveMapDropsCursor(self, res) ==
  CASE res.tag = "Ok" -> [tag |-> "Ok", cursor |-> [self EXCEPT !.item = into(res.doc)], err |-> NoFault]
    [] res.tag = "Err" -> [tag |-> "Err", cursor |-> NoCursor, err |-> res.err]
    [] OTHER -> [tag |-> "Panic", cursor |-> NoCursor, err |-> NoFault]

\* Mutant of MoveMap: the successful move keeps the old item.
MoveMapKeepsItem(self, res) ==
  CASE res.tag = "Ok" -> [tag |-> "Ok", cursor |-> self, err |-> NoFault]
    [] res.tag = "Err" -> [tag |-> "Err", cursor |-> self, err |-> res.err]
    [] OTHER -> [tag |-> "Panic", cursor |-> NoCursor, err |-> NoFault]

\* move_next / move_previous, the closure given to .map():
\*   Ok(item) => Ok(Self { item: item.into(), ..self }), Err(e) => Err((self, e,))
MoveMap(self, res) ==
  CASE res.tag = "Ok" -> [tag |-> "Ok", cursor |-> [self EXCEPT !.item = into(res.doc)], err |-> NoFault]
    [] res.tag = "Err" -> [tag |-> "Err", cursor |-> self, err |-> res.err]
    [] OTHER -> [tag |-> "Panic", cursor |-> NoCursor, err |-> NoFault]

\* Mutant of CursorMapOk: a failed fetch still yields a cursor, on no document.
CursorMapOkOnError(coll, res) ==
  CASE res.tag = "Ok" -> [tag |-> "Ok", cursor |-> Cursor(coll, into(res.doc)), err |-> NoFault]
    [] res.tag = "Err" -> [tag |-> "Err", cursor |-> Cursor(coll, NoDoc), err |-> res.err]
    [] OTHER -> [tag |-> "Panic", cursor |-> NoCursor, err |-> NoFault]

\* ref_cursor / get_cursor, the closure given to .map_ok():
\*   move |item,| Cursor::new(self, item.into(),)
CursorMapOk(coll, res) ==
  CASE res.tag = "Ok" -> [tag |-> "Ok", cursor |-> Cursor(coll, into(res.doc)), err |-> NoFault]
    [] res.tag = "Err" -> [tag |-> "Err", cursor |-> NoCursor, err |-> res.err]
    [] OTHER -> [tag |-> "Panic", cursor |-> NoCursor, err |-> NoFault]

\* get_collection / get_item: &self.collection, &self.item
Cursor_get_collection(c) == c.collection
Cursor_get_item(c) == c.item

\* as_ref: Cursor::new(self.get_collection(), self.get_item(),)
as_ref(c) == Cursor(Cursor_get_collection(c), Cursor_get_item(c))

\* copied (and cloned, on a Copy item): Cursor::new(self.collection, *self.item,)
copied(c) == Cursor(c.collection, c.item)

\* copied_coll: Cursor::new(*self.collection, self.item,)
copied_coll(c) == Cursor(c.collection, c.item)

\* Mutant of PeekBody: the edge of the list is reported as a failure.
PeekBodyEdgeIsError(op, self, nid, res) ==
  IF nid = None THEN [tag |-> "Err", cursor |-> NoCursor, err |-> "StoreFault"]
  ELSE LET r == CursorMapOk(self.collection, res)
       IN IF r.tag # "Ok" THEN r
          ELSE [tag |-> "Some",
                cursor |-> IF op \in GetPeekOps THEN copied_coll(r.cursor) ELSE r.cursor,
                err |-> NoFault]

\* ref_next / ref_previous / get_next / get_previous, the body after the
\* match on the neighbour identifier `nid`, given the result of the fetch:
\*   Some(id) => self.collection.ref_cursor(id,).await.map(Some) [copied_coll]
\*   None => Ok(None)
PeekBody(op, self, nid, res) ==
  IF nid = None THEN [tag |-> "None", cursor |-> NoCursor, err |-> NoFault]
  ELSE LET r == CursorMapOk(self.collection, res)
       IN IF r.tag # "Ok" THEN r
          ELSE [tag |-> "Some",
                cursor |-> IF op \in GetPeekOps THEN copied_coll(r.cursor) ELSE r.cursor,
                err |-> NoFault]

\* Mutant of peek: the neighbour is read from the document the map holds now
\* under the item's identifier.
peek_follows_store(op, self, m, fault) ==
  LET held == IF Present(m, get_id(self.item)) THEN m[get_id(self.item)] ELSE self.item
      nid == NeighbourId(op, held)
  IN PeekBody(op, self, nid, IF nid = None THEN Ok(NoDoc) ELSE StoreGet(m, nid, fault))

\* Mutant of peek: a failed fetch is tried a second time.
peek_retries(op, self, m, fault) ==
  LET nid == NeighbourId(op, self.item)
      first == IF nid = None THEN Ok(NoDoc) ELSE StoreGet(m, nid, fault)
  IN PeekBody(op, self, nid,
              IF first.tag = "Err" THEN StoreGet(m, nid, NoFault) ELSE first)

\* ref_next / ref_previous / get_next / get_previous awaited on the cursor
\* `self` against the map m: the match on the neighbour identifier, the fetch
\* of the neighbour when there is one, and the body on its result.
peek(op, self, m, fault) ==
  LET nid == NeighbourId(op, self.item)
  IN PeekBody(op, self, nid, IF nid = None THEN Ok(NoDoc) ELSE StoreGet(m, nid, fault))

\* move_next / move_previous on `self` with the returned future awaited at
\* once against the map m.
move(op, self, m, fault) ==
  LET mm == MoveMatch(op, self)
  IN IF mm.tag = "Edge" THEN [tag |-> "Edge", cursor |-> mm.cursor, err |-> NoFault]
     ELSE MoveMap(self, StoreGet(m, mm.id, fault))

(* ---------------------------------------------------------------- state *)

VARIABLES
  store,     \* the HashMap behind the Rc<RefCell<..>>: identifier -> document
  cur,       \* the cursor each caller variable holds (NoCursor: none)
  lender,    \* the slot whose cursor a ref_next/ref_previous result borrows
  pend,      \* the move future a slot is waiting on (NoFuture: none)
  last,      \* the most recent call and what it returned (history)
  panicked,  \* a task has unwound: the executor's run() has panicked
  cell       \* the RefCell's borrow flag and the store futures of the tasks

vars == <<store, cur, lender, pend, last, panicked, cell>>

NoFuture == [op |-> "none", self |-> NoCursor, id |-> None]
NoLast ==
  [op |-> "none", slot |-> 0, src |-> 0, tag |-> "none", err |-> NoFault, calls |-> <<>>,
   before |-> NoCursor, id |-> None, after |-> NoCursor,
   docs |-> <<>>, ids |-> <<>>, faults |-> <<>>, results |-> <<>>, convs |-> <<>>]

\* A task with no store future, and the output of a future not yet ready.
NoOut == [tag |-> "none", doc |-> NoDoc, cursor |-> NoCursor, err |-> NoFault]
NoTask == [st |-> "idle", kind |-> "none", id |-> None, doc |-> NoDoc,
           self |-> NoCursor, out |-> NoOut]

\* RefCell::new(HashMap::new()): not borrowed; the executor is in no poll.
NoCell == [borrow |-> 0, running |-> 0, tasks |-> [t \in Tasks |-> NoTask]]

Init ==
  /\ store = EmptyMap
  /\ cur = [s \in Slots |-> NoCursor]
  /\ lender = [s \in Slots |-> 0]
  /\ pend = [s \in Slots |-> NoFuture]
  /\ last = NoLast
  /\ panicked = FALSE
  /\ cell = NoCell

\* A shared borrow of the cursor in slot s is alive: a cursor produced by
\* ref_next / ref_previous still refers to its collection field.
Lent(s) == \E t \in Slots : lender[t] = s

\* Slot t is the caller variable a new cursor is bound to: the first one
\* that holds neither a cursor nor a future.
Empty(t) == cur[t] = NoCursor /\ pend[t] = NoFuture
Free(t) == Empty(t) /\ \A u \in Slots : u < t => ~Empty(u)

\* A call can be made: no task has panicked, and the caller has let go of
\* what the previous call returned.
Ready == ~panicked /\ last = NoLast

(* -------------------------------------------------------------- actions *)

\* The caller lets go of what the most recent call returned.
Forget ==
  /\ last # NoLast
  /\ last' = NoLast
  /\ UNCHANGED <<store, cur, lender, pend, panicked, cell>>


\* coll.write_document(&doc,).await
WriteDocument(d, fault) ==
  /\ Ready
  /\ LET w == StoreWrite(store, d, fault)
     IN /\ store' = w.map
        /\ last' = [NoLast EXCEPT !.op = "write_document", !.tag = w.res.tag,
                                  !.err = w.res.err, !.id = get_id(d), !.docs = <<d>>,
                                  !.faults = <<fault>>, !.results = <<w.res>>]
  /\ UNCHANGED <<cur, lender, pend, panicked, cell>>

\* coll.get_document(&id,).await
GetDocument(id, fault) ==
  /\ Ready
  /\ LET res == StoreGet(store, id, fault)
     IN /\ panicked' = (res.tag = "Panic")
        /\ last' = [NoLast EXCEPT !.op = "get_document", !.tag = res.tag, !.err = res.err,
                                  !.calls = <<id>>, !.id = id, !.ids = <<id>>,
                                  !.faults = <<fault>>, !.results = <<res>>]
  /\ UNCHANGED <<store, cur, lender, pend, cell>>

\* coll.write_documents(&[..],).await
WriteDocuments(docs, faults) ==
  /\ Ready /\ Len(faults) = Len(docs)
  /\ LET w == write_documents(store, docs, faults)
     IN /\ store' = w.map
        /\ last' = [NoLast EXCEPT !.op = "write_documents", !.tag = w.tag, !.docs = docs,
                                  !.faults = faults, !.results = w.results]
  /\ UNCHANGED <<cur, lender, pend, panicked, cell>>

\* coll.get_documents(&[..],).await
GetDocuments(ids, faults, order) ==
  /\ Ready /\ Len(faults) = Len(ids) /\ order \in Orders(Len(ids))
  /\ LET g == get_documents(store, ids, faults, order)
     IN /\ panicked' = (g.tag = "Panic")
        /\ last' = [NoLast EXCEPT !.op = "get_documents", !.tag = g.tag, !.calls = ids,
                                  !.ids = ids, !.faults = faults, !.results = g.results]
  /\ UNCHANGED <<store, cur, lender, pend, cell>>

\* coll.get_item::<T>(&id,).await
GetItem(id, fault, conv) ==
  /\ Ready
  /\ LET r == get_item(store, id, fault, conv)
     IN /\ panicked' = (r.tag = "Panic")
        /\ last' = [NoLast EXCEPT !.op = "get_item", !.tag = r.tag, !.err = r.err,
                                  !.calls = <<id>>, !.id = id, !.ids = <<id>>,
                                  !.faults = <<fault>>, !.convs = <<conv>>,
                                  !.results = IF r.tag = "Ok" THEN <<r.val>> ELSE <<>>]
  /\ UNCHANGED <<store, cur, lender, pend, cell>>

\* coll.get_items::<T>(&[..],).await
GetItems(ids, faults, order, bfault, convs) ==
  /\ Ready /\ Len(faults) = Len(ids) /\ Len(convs) = Len(ids)
  /\ order \in Orders(Len(ids))
  /\ LET g == get_items(store, ids, faults, order, bfault, convs)
     IN /\ panicked' = (g.tag = "Panic")
        /\ last' = [NoLast EXCEPT !.op = "get_items", !.tag = g.tag, !.err = g.err,
                                  !.calls = ids, !.ids = ids, !.faults = faults,
                                  !.convs = convs, !.results = g.results]
  /\ UNCHANGED <<store, cur, lender, pend, cell>>

\* coll.ref_cursor::<Doc>(&id,).await into the caller's variable t:
\* get_document(id), then the closure on its result.
RefCursor(t, h, id, fault) ==
  /\ Ready /\ Free(t)
  /\ LET res == StoreGet(store, id, fault)
         out == CursorMapOk(h, res)
     IN /\ cur' = [cur EXCEPT ![t] = out.cursor]
        /\ lender' = [lender EXCEPT ![t] = 0]
        /\ panicked' = (out.tag = "Panic")
        /\ last' = [NoLast EXCEPT !.op = "ref_cursor", !.slot = t, !.tag = out.tag,
                                  !.err = out.err, !.calls = <<id>>, !.id = id,
                                  !.before = Cursor(h, NoDoc),
                                  !.after = out.cursor, !.faults = <<fault>>]
  /\ UNCHANGED <<store, pend, cell>>

\* coll.get_cursor::<Doc>(&id,).await into the caller's variable t, on a
\* collection handle that is Copy: get_document(id), then the closure, which
\* owns a copy of the handle, on its result.
GetCursor(t, h, id, fault) ==
  /\ Ready /\ Free(t)
  /\ LET res == StoreGet(store, id, fault)
         out == CursorMapOk(h, res)
     IN /\ cur' = [cur EXCEPT ![t] = out.cursor]
        /\ lender' = [lender EXCEPT ![t] = 0]
        /\ panicked' = (out.tag = "Panic")
        /\ last' = [NoLast EXCEPT !.op = "get_cursor", !.slot = t, !.tag = out.tag,
                                  !.err = out.err, !.calls = <<id>>, !.id = id,
                                  !.before = Cursor(h, NoDoc),
                                  !.after = out.cursor, !.faults = <<fault>>]
  /\ UNCHANGED <<store, pend, cell>>

\* cursor.move_next() / cursor.move_previous() on the cursor in slot s: the
\* synchronous part, which consumes the cursor.
MoveCall(s, op) ==
  /\ Ready /\ op \in MoveOps
  /\ cur[s] # NoCursor /\ pend[s] = NoFuture /\ ~Lent(s)
  /\ LET self == cur[s]
         m == MoveMatch(op, self)
     IN /\ pend' = [pend EXCEPT ![s] =
             IF m.tag = "Pending" THEN [op |-> op, self |-> self, id |-> m.id] ELSE NoFuture]
        /\ cur' = [cur EXCEPT ![s] = m.cursor]
        /\ last' = [NoLast EXCEPT !.op = op, !.slot = s, !.tag = m.tag, !.calls = m.calls,
                                  !.before = self, !.id = m.id, !.after = m.cursor]
  /\ UNCHANGED <<store, lender, panicked, cell>>

\* Mutant of MovePoll: the cursors of one collection share one position.
MovePollMovesAll(s, fault) ==
  /\ Ready /\ pend[s].op \in MoveOps
  /\ LET self == pend[s].self
         res == StoreGet(store, pend[s].id, fault)
         out == MoveMap(self, res)
     IN /\ pend' = [pend EXCEPT ![s] = NoFuture]
        /\ cur' = [u \in Slots |->
                    IF u = s \/ (cur[u] # NoCursor /\ out.tag = "Ok") THEN out.cursor
                    ELSE cur[u]]
        /\ lender' = [lender EXCEPT ![s] = IF out.tag = "Panic" THEN 0 ELSE lender[s]]
        /\ panicked' = (out.tag = "Panic")
        /\ last' = [NoLast EXCEPT !.op = pend[s].op, !.slot = s, !.tag = out.tag,
                                  !.err = out.err, !.before = self, !.id = pend[s].id,
                                  !.after = out.cursor, !.faults = <<fault>>]
  /\ UNCHANGED <<store, cell>>

\* Mutant of MovePoll: the resolving move writes the old item back to the map.
MovePollWritesBack(s, fault) ==
  /\ Ready /\ pend[s].op \in MoveOps
  /\ LET self == pend[s].self
         res == StoreGet(store, pend[s].id, fault)
         out == MoveMap(self, res)
     IN /\ pend' = [pend EXCEPT ![s] = NoFuture]
        /\ cur' = [cur EXCEPT ![s] = out.cursor]
        /\ lender' = [lender EXCEPT ![s] = IF out.tag = "Panic" THEN 0 ELSE lender[s]]
        /\ panicked' = (out.tag = "Panic")
        /\ last' = [NoLast EXCEPT !.op = pend[s].op, !.slot = s, !.tag = out.tag,
                                  !.err = out.err, !.before = self, !.id = pend[s].id,
                                  !.after = out.cursor, !.faults = <<fault>>]
        /\ store' = write_document(store, self.item).map
  /\ UNCHANGED cell

\* The future returned by move_next / move_previous is polled: the map is
\* read and the closure applied to the result.
MovePoll(s, fault) ==
  /\ Ready /\ pend[s].op \in MoveOps
  /\ LET self == pend[s].self
         res == StoreGet(store, pend[s].id, fault)
         out == MoveMap(self, res)
     IN /\ pend' = [pend EXCEPT ![s] = NoFuture]
        /\ cur' = [cur EXCEPT ![s] = out.cursor]
        /\ lender' = [lender EXCEPT ![s] = IF out.tag = "Panic" THEN 0 ELSE lender[s]]
        /\ panicked' = (out.tag = "Panic")
        /\ last' = [NoLast EXCEPT !.op = pend[s].op, !.slot = s, !.tag = out.tag,
                                  !.err = out.err, !.before = self, !.id = pend[s].id,
                                  !.after = out.cursor, !.faults = <<fault>>]
  /\ UNCHANGED <<store, cell>>

\* Mutant of Peek: the peek moves the cursor it is called on as well.
PeekAdvancesSelf(s, t, op, fault) ==
  /\ Ready /\ op \in PeekOps /\ s # t
  /\ cur[s] # NoCursor /\ pend[s] = NoFuture
  /\ Free(t)
  /\ LET self == cur[s]
         nid == NeighbourId(op, self.item)
         out == peek(op, self, store, fault)
     IN /\ (nid = None => fault = NoFault)
        /\ cur' = [cur EXCEPT ![t] = out.cursor,
                              ![s] = IF out.tag = "Some" THEN out.cursor ELSE self]
        /\ lender' = [lender EXCEPT ![t] = IF out.tag = "Some" /\ op \in RefPeekOps THEN s ELSE 0]
        /\ panicked' = (out.tag = "Panic")
        /\ last' = [NoLast EXCEPT !.op = op, !.slot = t, !.src = s, !.tag = out.tag,
                                  !.err = out.err,
                                  !.calls = IF nid = None THEN <<>> ELSE <<nid>>,
                                  !.before = self, !.id = nid, !.after = out.cursor,
                                  !.faults = <<fault>>]
  /\ UNCHANGED <<store, pend, cell>>

\* cursor.get_next().await and the other peeks, on the cursor in slot s with
\* the result bound to the caller's variable t: the body of the async fn.
Peek(s, t, op, fault) ==
  /\ Ready /\ op \in PeekOps /\ s # t
  /\ cur[s] # NoCursor /\ pend[s] = NoFuture
  /\ Free(t)
  /\ LET self == cur[s]
         nid == NeighbourId(op, self.item)
         out == peek(op, self, store, fault)
     IN /\ (nid = None => fault = NoFault)
        /\ cur' = [cur EXCEPT ![t] = out.cursor]
        /\ lender' = [lender EXCEPT ![t] = IF out.tag = "Some" /\ op \in RefPeekOps THEN s ELSE 0]
        /\ panicked' = (out.tag = "Panic")
        /\ last' = [NoLast EXCEPT !.op = op, !.slot = t, !.src = s, !.tag = out.tag,
                                  !.err = out.err,
                                  !.calls = IF nid = None THEN <<>> ELSE <<nid>>,
                                  !.before = self, !.id = nid, !.after = out.cursor,
                                  !.faults = <<fault>>]
  /\ UNCHANGED <<store, pend, cell>>

\* cursor.as_ref().copied().copied_coll() on the cursor in slot s, bound to
\* the caller's variable t: the item and the handle are read and copied.
CopyCursor(s, t) ==
  /\ Ready /\ s # t
  /\ cur[s] # NoCursor /\ pend[s] = NoFuture
  /\ Free(t)
  /\ LET out == copied_coll(copied(as_ref(cur[s])))
     IN /\ cur' = [cur EXCEPT ![t] = out]
        /\ lender' = [lender EXCEPT ![t] = 0]
        /\ last' = [NoLast EXCEPT !.op = "copied", !.slot = t, !.src = s, !.tag = "Ok",
                                  !.before = cur[s], !.after = out]
  /\ UNCHANGED <<store, pend, panicked, cell>>

\* The cursor in slot t goes out of scope.
DropCursor(t) ==
  /\ Ready /\ cur[t] # NoCursor /\ pend[t] = NoFuture /\ ~Lent(t)
  /\ cur' = [cur EXCEPT ![t] = NoCursor]
  /\ lender' = [lender EXCEPT ![t] = 0]
  /\ UNCHANGED <<store, pend, last, panicked, cell>>

(* ------------------------------------------- store futures on the executor *)

\* The store futures a task can hold: get_document, write_document, and the
\* future of a cursor move, which wraps a get_document future.
FutureKinds == {"get_document", "write_document"} \cup MoveOps

\* A task calls coll.get_document(&id,): the Rc is cloned and the poll_fn
\* boxed; nothing is borrowed or read before the first poll.
SpawnGet(t, id) ==
  /\ ~panicked /\ cell.tasks[t].st = "idle"
  /\ cell' = [cell EXCEPT !.tasks[t] =
               [NoTask EXCEPT !.st = "created", !.kind = "get_document", !.id = id]]
  /\ UNCHANGED <<store, cur, lender, pend, last, panicked>>

\* A task calls coll.write_document(&d,).
SpawnWrite(t, d) ==
  /\ ~panicked /\ cell.tasks[t].st = "idle"
  /\ cell' = [cell EXCEPT !.tasks[t] =
               [NoTask EXCEPT !.st = "created", !.kind = "write_document",
                              !.id = get_id(d), !.doc = d]]
  /\ UNCHANGED <<store, cur, lender, pend, last, panicked>>

\* A task calls move_next / move_previous on a cursor whose item has the
\* neighbour: the returned future wraps get_document(neighbour).
SpawnMove(t, op, self) ==
  /\ ~panicked /\ cell.tasks[t].st = "idle" /\ op \in MoveOps
  /\ MoveMatch(op, self).tag = "Pending"
  /\ cell' = [cell EXCEPT !.tasks[t] =
               [NoTask EXCEPT !.st = "created", !.kind = op,
                              !.id = MoveMatch(op, self).id, !.self = self]]
  /\ UNCHANGED <<store, cur, lender, pend, last, panicked>>

\* The executor, in no other poll, polls the future of task t: the closure
\* of the poll_fn runs up to its match on try_borrow / try_borrow_mut.
\*   Ok(coll) => the guard is held;  Err(_) => Poll::Pending
\* The closure ignores its Context, so a Pending future is never woken.
PollBorrow(t) ==
  /\ ~panicked /\ cell.running = 0 /\ cell.tasks[t].st = "created"
  /\ LET kind == cell.tasks[t].kind
         ok == IF kind = "write_document" THEN try_borrow_mut(cell.borrow)
               ELSE try_borrow(cell.borrow)
     IN cell' = IF ok
                THEN [cell EXCEPT !.borrow = Borrowed(cell.borrow, kind), !.running = t,
                                  !.tasks[t].st = "polling"]
                ELSE [cell EXCEPT !.tasks[t].st = "parked"]
  /\ UNCHANGED <<store, cur, lender, pend, last, panicked>>

\* The rest of the closure, under the guard: coll[&id] or coll.insert(..),
\* then Poll::Ready(..); the guard is dropped when the closure returns, and
\* also when coll[&id] panics and the poll unwinds.
PollBody(t) ==
  /\ ~panicked /\ cell.running = t /\ cell.tasks[t].st = "polling"
  /\ LET task == cell.tasks[t]
         res == get_document(store, task.id)
         mv == MoveMap(task.self, res)
         w == write_document(store, task.doc)
         out == CASE task.kind = "get_document" ->
                       [NoOut EXCEPT !.tag = res.tag, !.doc = res.doc]
                  [] task.kind = "write_document" -> [NoOut EXCEPT !.tag = w.res.tag]
                  [] OTHER -> [NoOut EXCEPT !.tag = mv.tag, !.cursor = mv.cursor]
     IN /\ store' = IF task.kind = "write_document" THEN w.map ELSE store
        /\ panicked' = (out.tag = "Panic")
        /\ cell' = [cell EXCEPT !.borrow = Dropped(cell.borrow), !.running = 0,
                                !.tasks[t].st = IF out.tag = "Panic" THEN "panicked" ELSE "ready",
                                !.tasks[t].out = out]
  /\ UNCHANGED <<cur, lender, pend, last>>

\* The task takes the output of its future and goes on.
Take(t) ==
  /\ ~panicked /\ cell.tasks[t].st = "ready"
  /\ cell' = [cell EXCEPT !.tasks[t] = NoTask]
  /\ UNCHANGED <<store, cur, lender, pend, last, panicked>>

\* The cursors whose moves the tasks run: a handle and a document.
TaskCursors == {Cursor(h, d) : h \in Handles, d \in DocPool}

\* Tasks sharing the in-memory store on one single-threaded executor.
NextCell ==
  \/ \E t \in Tasks, id \in Ids : SpawnGet(t, id)
  \/ \E t \in Tasks, d \in DocPool : SpawnWrite(t, d)
  \/ \E t \in Tasks, op \in MoveOps, c \in TaskCursors : SpawnMove(t, op, c)
  \/ \E t \in Tasks : PollBorrow(t)
  \/ \E t \in Tasks : PollBody(t)
  \/ \E t \in Tasks : Take(t)

SpecCell == Init /\ [][NextCell]_vars

\* The calls are enabled only when Ready: the guard is repeated here so that
\* their inputs are enumerated in those states alone.
Next ==
  \/ Ready /\ \E d \in DocPool, f \in Faults : WriteDocument(d, f)
  \/ Ready /\ \E t \in Slots, h \in Handles, id \in Ids, f \in Faults : RefCursor(t, h, id, f)
  \/ Ready /\ \E t \in Slots, h \in Handles, id \in Ids, f \in Faults : GetCursor(t, h, id, f)
  \/ Ready /\ \E s \in Slots, op \in MoveOps : MoveCall(s, op)
  \/ Ready /\ \E s \in Slots, f \in Faults : MovePoll(s, f)
  \/ Ready /\ \E s \in Slots, t \in Slots, op \in PeekOps, f \in Faults : Peek(s, t, op, f)
  \/ Ready /\ \E s \in Slots, t \in Slots : CopyCursor(s, t)
  \/ Ready /\ \E t \in Slots : DropCursor(t)
  \/ Ready /\ \E d \in DocPool, e \in DocPool : WriteDocuments(<<d, e>>, <<NoFault, NoFault>>)
  \/ Forget

Spec == Init /\ [][Next]_vars

\* The collection used on its own: single and batched reads and writes.
NextBatch ==
  \/ Ready /\ \E d \in DocPool, f \in Faults : WriteDocument(d, f)
  \/ Ready /\ \E id \in Ids, f \in Faults : GetDocument(id, f)
  \/ Ready /\ \E n \in 0..MaxBatch :
       \E docs \in [1..n -> DocPool], fs \in [1..n -> Faults] : WriteDocuments(docs, fs)
  \/ Ready /\ \E n \in 0..MaxBatch :
       \E o \in Orders(n), ids \in [1..n -> Ids], fs \in [1..n -> Faults] :
         GetDocuments(ids, fs, o)
  \/ Forget

SpecBatch == Init /\ [][NextBatch]_vars

\* The converting reads of the collection, over a map filled by single writes.
NextItems ==
  \/ Ready /\ \E d \in DocPool : WriteDocument(d, NoFault)
  \/ Ready /\ \E id \in Ids, f \in Faults, c \in Convs : GetItem(id, f, c)
  \/ Ready /\ \E n \in 0..MaxItems, bf \in Faults :
       \E o \in Orders(n), ids \in [1..n -> Ids], fs \in [1..n -> Faults],
          cs \in [1..n -> Convs] : GetItems(ids, fs, o, bf, cs)
  \/ Forget

SpecItems == Init /\ [][NextItems]_vars

(* ---------------------------------------------------------------- claims *)

\* The single fault a cursor call was run with.
LastFault == IF last.faults = <<>> THEN NoFault ELSE last.faults[1]

\* C1: a polled move_next / move_previous future of a cursor C whose item has
\* the neighbour identifier N resolves either to Ok(cursor) with the item the
\* store holds for N and C's own collection handle, or, exactly when the
\* store's get_document failed, to Err((C, e)) with C as it was.
C1_MoveResolves ==
  (last.op \in MoveOps /\ last.tag \in {"Ok", "Err"}) =>
    LET C == last.before
        N == NeighbourId(last.op, C.item)
    IN /\ N # None /\ last.id = N /\ C # NoCursor
       /\ (last.tag = "Err") <=> (LastFault # NoFault)
       /\ last.tag = "Ok" =>
            /\ Present(store, N)
            /\ last.after = Cursor(C.collection, store[N])
            /\ cur[last.slot] = last.after
       /\ last.tag = "Err" =>
            /\ last.err = LastFault
            /\ last.after = C
            /\ cur[last.slot] = C

\* C1 witness: a move_next failed on a store error and the caller holds the
\* cursor it started from.
C1_Witness ==
  /\ last.op = "move_next" /\ last.tag = "Err"
  /\ cur[last.slot] = last.before /\ get_next_id(last.before.item) # None

\* C2: move_next on a cursor whose item has no next identifier (move_previous:
\* no previous identifier) fails synchronously: the cursor comes back
\* unchanged, no future is pending and get_document was not called.
C2_EdgeIsSynchronous ==
  (last.op \in MoveOps /\ NeighbourId(last.op, last.before.item) = None) =>
    /\ last.tag = "Edge"
    /\ last.after = last.before
    /\ cur[last.slot] = last.before
    /\ pend[last.slot] = NoFuture
    /\ last.calls = <<>>

\* C2 witness: move_previous was called on a cursor at the front of its list.
C2_Witness ==
  /\ last.op = "move_previous" /\ last.tag = "Edge"
  /\ cur[last.slot] # NoCursor /\ is_front(cur[last.slot].item)

\* C3: a peek returns Ok(None) exactly when the item's neighbour identifier is
\* absent, an outcome distinct from the store's failure; with the identifier
\* present and the fetch successful it returns a new cursor on the store's
\* document for that identifier, with the original cursor's handle.
C3_PeekOutcome ==
  (last.op \in PeekOps /\ last.tag # "Pending") =>
    LET C == last.before
        N == NeighbourId(last.op, C.item)
    IN /\ (last.tag = "None") <=> (N = None)
       /\ last.tag = "None" => (last.after = NoCursor /\ last.calls = <<>>)
       /\ (last.tag = "Err") <=> (N # None /\ LastFault # NoFault)
       /\ last.tag = "Err" => last.err = LastFault
       /\ (N # None /\ LastFault = NoFault /\ Present(store, N)) =>
            /\ last.tag = "Some"
            /\ last.after = Cursor(C.collection, store[N])
            /\ cur[last.slot] = last.after

\* C3 witness: get_next on a cursor at the back of its list returned Ok(None).
C3_Witness ==
  /\ last.op = "get_next" /\ last.tag = "None"
  /\ cur[last.src] # NoCursor /\ is_back(cur[last.src].item)

\* C4: whatever a peek returns (a neighbour, no neighbour, a store error), the
\* cursor it was called on is the same afterwards, nothing is pending on it,
\* and the cursor a get_next / get_previous returns does not borrow it.
C4_PeekLeavesCursor ==
  (last.op \in PeekOps /\ last.tag \in {"Some", "None", "Err"}) =>
    /\ last.before # NoCursor
    /\ cur[last.src] = last.before
    /\ pend[last.src] = NoFuture
    /\ last.op \in GetPeekOps => lender[last.slot] # last.src

\* C4 witness: a ref_previous failed on a store error, the cursor is as before.
C4_Witness ==
  /\ last.op = "ref_previous" /\ last.tag = "Err"
  /\ cur[last.src] = last.before /\ last.before # NoCursor

\* A.next = B implies B.previous = A, for the documents the map holds.
LinkConsistent(m) ==
  \A a \in Ids :
    (Present(m, a) /\ m[a].next # None /\ Present(m, m[a].next)) =>
      m[m[a].next].prev = a

\* The cursor's item is the document the map holds under the item's identifier.
Current(c, m) == Present(m, get_id(c.item)) /\ m[get_id(c.item)] = c.item

\* C5 as claimed: in a link-consistent store, for every cursor whose item has
\* a next neighbour, get_next followed (with no write in between) by
\* get_previous on the result yields a cursor at the first cursor's identifier.
C5_RoundTripEveryCursor ==
  \A s \in Slots :
    (cur[s] # NoCursor /\ LinkConsistent(store)) =>
      LET X == peek("get_next", cur[s], store, NoFault)
      IN X.tag = "Some" =>
           LET Y == peek("get_previous", X.cursor, store, NoFault)
           IN Y.tag = "Some" => get_id(Y.cursor.item) = get_id(cur[s].item)

\* C5 amended: the same for every cursor whose item is the document the store
\* currently holds under its identifier; get_previous then does find a
\* neighbour, and it is that document.
C5_RoundTripCurrentCursor ==
  \A s \in Slots :
    (cur[s] # NoCursor /\ LinkConsistent(store) /\ Current(cur[s], store)) =>
      LET X == peek("get_next", cur[s], store, NoFault)
      IN X.tag = "Some" =>
           LET Y == peek("get_previous", X.cursor, store, NoFault)
           IN /\ Y.tag = "Some"
              /\ get_id(Y.cursor.item) = get_id(cur[s].item)

\* C5 witness: get_previous has just returned a cursor Y on the cursor X that
\* get_next returns for Y's position: the round trip has been made.
C5_Witness ==
  /\ last.op = "get_previous" /\ last.tag = "Some" /\ LinkConsistent(store)
  /\ Current(cur[last.slot], store)
  /\ peek("get_next", cur[last.slot], store, NoFault).tag = "Some"
  /\ peek("get_next", cur[last.slot], store, NoFault).cursor = last.before
  /\ get_id(last.after.item) = get_id(cur[last.slot].item)

\* C6 as claimed: in a link-consistent store, for every cursor C whose item
\* has a next neighbour, move_previous on the cursor get_next returns for C
\* resolves (no write in between) to a cursor equal to C.
C6_PeekThenMoveBackEveryCursor ==
  \A s \in Slots :
    (cur[s] # NoCursor /\ LinkConsistent(store)) =>
      LET X == peek("get_next", cur[s], store, NoFault)
      IN X.tag = "Some" =>
           LET R == move("move_previous", X.cursor, store, NoFault)
           IN R.tag = "Ok" /\ R.cursor = cur[s]

\* C6 amended: the same for every cursor C whose item is the document the
\* store currently holds under its identifier.
C6_PeekThenMoveBackCurrentCursor ==
  \A s \in Slots :
    (cur[s] # NoCursor /\ LinkConsistent(store) /\ Current(cur[s], store)) =>
      LET X == peek("get_next", cur[s], store, NoFault)
      IN X.tag = "Some" =>
           LET R == move("move_previous", X.cursor, store, NoFault)
           IN R.tag = "Ok" /\ R.cursor = cur[s]

\* C6 witness: a move_previous has resolved on the cursor that get_next
\* returns for a cursor C the caller still holds, and the two are equal.
C6_Witness ==
  /\ last.op = "move_previous" /\ last.tag = "Ok" /\ LinkConsistent(store)
  /\ \E s \in Slots :
       /\ s # last.slot /\ cur[s] # NoCursor /\ Current(cur[s], store)
       /\ peek("get_next", cur[s], store, NoFault).cursor = last.before
       /\ cur[last.slot] = cur[s]

\* The map of tests::test_cursor after its writes.
ScenarioStore ==
  [i \in Ids |-> IF i = 1 THEN doc1 ELSE IF i = 2 THEN doc2
                 ELSE IF i = 3 THEN doc3 ELSE IF i = 4 THEN doc4 ELSE NoDoc]

\* Slot s1 holds the cursor opened at id3 and slot s2 the cursor at id4 that
\* get_next returns for it, in the scenario's store.
AtScenario(s1, s2) ==
  /\ store = ScenarioStore /\ s1 # s2
  /\ cur[s1] # NoCursor /\ cur[s1].item = doc3
  /\ peek("get_next", cur[s1], store, NoFault).tag = "Some"
  /\ cur[s2] = peek("get_next", cur[s1], store, NoFault).cursor

\* C7 as claimed: in the four-card scenario, move_previous and then move_next
\* from the cursor at id4 returns a cursor equal to the original id3 cursor.
C7_BackAndForthIsId3 ==
  \A s1, s2 \in Slots :
    AtScenario(s1, s2) =>
      LET P == move("move_previous", cur[s2], store, NoFault)
          Q == move("move_next", P.cursor, store, NoFault)
      IN Q.tag = "Ok" /\ Q.cursor = cur[s1]

\* C7 amended: in the four-card scenario, move_previous from the cursor at
\* id4 returns a cursor equal to the original id3 cursor, and move_next from
\* there returns a cursor equal to the one at id4.
C7_BackIsId3ForthIsId4 ==
  /\ \A s1, s2 \in Slots :
       AtScenario(s1, s2) =>
         LET P == move("move_previous", cur[s2], store, NoFault)
             Q == move("move_next", P.cursor, store, NoFault)
         IN /\ cur[s2].item = doc4
            /\ P.tag = "Ok" /\ P.cursor = cur[s1]
            /\ Q.tag = "Ok" /\ Q.cursor = cur[s2]
  /\ (store = ScenarioStore /\ last.op = "move_previous" /\ last.tag = "Ok"
        /\ last.before.item = doc4) =>
       cur[last.slot] = Cursor(last.before.collection, doc3)
  /\ (store = ScenarioStore /\ last.op = "move_next" /\ last.tag = "Ok"
        /\ last.before.item = doc3) =>
       cur[last.slot] = Cursor(last.before.collection, doc4)

\* C7 witness: in the scenario's store the cursor at id4 has been moved back
\* and equals the id3 cursor the caller still holds.
C7_Witness ==
  /\ store = ScenarioStore
  /\ last.op = "move_previous" /\ last.tag = "Ok" /\ last.before.item = doc4
  /\ \E s \in Slots : s # last.slot /\ cur[s].item = doc3 /\ cur[s] = cur[last.slot]

\* The result the store gives for one write run with `fault`.
WriteResult(fault) == IF fault # NoFault THEN Err(fault) ELSE OkUnit

\* A later write of the batch, itself successful, replaced document i.
Overwritten(i) ==
  \E j \in (i + 1)..Len(last.docs) :
    get_id(last.docs[j]) = get_id(last.docs[i]) /\ last.faults[j] = NoFault

C9_BatchOkIffAllOk ==
  last.op = "write_documents" =>
    /\ (last.tag = "Ok") <=> (\A i \in DOMAIN last.faults : last.faults[i] = NoFault)
    /\ last.tag \in {"Ok", "Err"}
    /\ last.tag = "Err" =>
         /\ Len(last.results) = Len(last.docs)
         /\ \A i \in DOMAIN last.docs :
              (last.results[i].tag = "Err") <=> (last.faults[i] # NoFault)

\* C9 witness: the first write of a batch failed and its last one succeeded;
\* the batch is reported as failed.
C9_Witness ==
  /\ last.op = "write_documents" /\ last.tag = "Err" /\ Len(last.docs) >= 2
  /\ last.faults[1] # NoFault /\ last.faults[Len(last.docs)] = NoFault
  /\ last.results[1].tag = "Err"

\* C10 as claimed: get_documents returns Ok with one result per identifier, at
\* the identifier's own index: the store's document, or an error for an
\* identifier the store does not hold (or cannot fetch), which never aborts
\* the batch or fails the outer result.
C10_GetBatchPerItem ==
  last.op = "get_documents" =>
    /\ last.tag = "Ok"
    /\ Len(last.results) = Len(last.ids)
    /\ \A i \in DOMAIN last.ids :
         IF last.faults[i] # NoFault THEN last.results[i] = Err(last.faults[i])
         ELSE IF Present(store, last.ids[i]) THEN last.results[i] = Ok(store[last.ids[i]])
         ELSE last.results[i].tag = "Err"

\* C11: write_document is an upsert under the document's own identifier. A
\* successful write_document(d) leaves the map holding d under d's identifier
\* and every other entry as it was, whether or not the key existed; a
\* successful get_document(id) returns the map's entry for id and changes
\* nothing; and an entry changes only in a write of a document with that
\* identifier, so get_document(d.id) returns d until the next such write.
C11_WriteIsUpsert ==
  [][ /\ (last'.op = "write_document" /\ last'.tag = "Ok") =>
           store' = [store EXCEPT ![get_id(last'.docs[1])] = last'.docs[1]]
      /\ (last'.op = "get_document" /\ last'.tag = "Ok") =>
           /\ last'.results[1] = Ok(store[last'.id])
           /\ store' = store
      /\ \A i \in Ids :
           store'[i] # store[i] =>
             /\ last'.op \in {"write_document", "write_documents"}
             /\ \E k \in DOMAIN last'.docs : get_id(last'.docs[k]) = i
    ]_vars

\* C11 witness: get_document has just returned the second document written
\* under id1, with another identifier's document still in the map.
C11_Witness ==
  /\ last.op = "get_document" /\ last.tag = "Ok" /\ last.id = get_id(doc1b)
  /\ last.results[1] = Ok(doc1b)
  /\ store[get_id(doc3)] = doc3

\* C12 as claimed: get_item and get_items surface a failed conversion through
\* the store's own Error type: a get_item whose fetch succeeded and whose
\* conversion was rejected returns an outer Err carrying a store Error, and
\* get_items reports a rejected conversion at its index as a store Error.
C12_ConversionFailureIsStoreError ==
  /\ (last.op = "get_item" /\ last.convs = <<"reject">> /\ last.faults = <<NoFault>>
        /\ Present(store, last.id)) =>
       (last.tag = "Err" /\ last.err \in Errors)
  /\ (last.op = "get_items" /\ last.tag = "Ok") =>
       \A i \in DOMAIN last.ids :
         last.convs[i] = "reject" =>
           (last.results[i].tag = "Err" /\ last.results[i].err \in Errors)

\* A cursor with a collection handle and a whole document as its item.
Whole(c) == c.collection \in Handles /\ c.item \in DocPool

\* C13: through any sequence of move_next / move_previous steps the caller
\* holds exactly one cursor per variable: either the cursor itself or the
\* pending future that owns it, never both, and always with a handle and a
\* whole document. A step that ends at the edge or in a store error leaves
\* the cursor it started with; a successful step leaves the same handle and,
\* as item, the document the store returned; and no future is left behind.
C13_CursorAlwaysWhole ==
  /\ \A s \in Slots :
       /\ ~(cur[s] # NoCursor /\ pend[s] # NoFuture)
       /\ cur[s] # NoCursor => Whole(cur[s])
       /\ pend[s] # NoFuture => (Whole(pend[s].self) /\ pend[s].op \in MoveOps)
  /\ (last.op \in MoveOps /\ last.tag = "Pending") =>
       (cur[last.slot] = NoCursor /\ pend[last.slot].self = last.before)
  /\ (last.op \in MoveOps /\ last.tag \in {"Ok", "Edge", "Err"}) =>
       /\ Whole(cur[last.slot]) /\ pend[last.slot] = NoFuture
       /\ cur[last.slot].collection = last.before.collection
       /\ last.tag \in {"Edge", "Err"} => cur[last.slot].item = last.before.item
       /\ last.tag = "Ok" => cur[last.slot].item = store[last.id]

\* C13 witness: a move_next has succeeded from id3 and the caller's variable
\* holds the cursor at id4, with the handle it had.
C13_Witness ==
  /\ last.op = "move_next" /\ last.tag = "Ok" /\ last.before.item = doc3
  /\ cur[last.slot] = Cursor(last.before.collection, doc4)
  /\ pend[last.slot] = NoFuture

OpenOps == {"ref_cursor", "get_cursor"}

\* C14: ref_cursor(id) and get_cursor(id) call get_document(id) once and
\* produce a cursor exactly when that fetch succeeded: its item is the
\* conversion of the fetched document and its handle is the collection the
\* call was made on. When the fetch fails, the store's error is returned and
\* no cursor is produced.
C14_OpenFetchesThenWraps ==
  (last.op \in OpenOps /\ last.tag \in {"Ok", "Err"}) =>
    /\ last.calls = <<last.id>>
    /\ (last.tag = "Err") <=> (LastFault # NoFault)
    /\ last.tag = "Ok" =>
         /\ Present(store, last.id)
         /\ last.after = Cursor(last.before.collection, into(store[last.id]))
         /\ last.after.collection \in Handles
         /\ cur[last.slot] = last.after
    /\ last.tag = "Err" =>
         /\ last.err = LastFault
         /\ last.after = NoCursor /\ cur[last.slot] = NoCursor

\* C14 witness: get_cursor has returned a cursor at id3 on the handle it was
\* called on.
C14_Witness ==
  /\ last.op = "get_cursor" /\ last.tag = "Ok" /\ last.id = get_id(doc3)
  /\ cur[last.slot] = Cursor(last.before.collection, doc3)

\* C15: for every document, is_back holds exactly when it has no next
\* identifier and is_front exactly when it has no previous identifier; and
\* move_next ends in the synchronous edge outcome exactly when is_back holds
\* of the cursor's item, move_previous exactly when is_front holds.
C15_EdgeIffBackOrFront ==
  /\ \A d \in DocPool :
       /\ is_back(d) <=> (d.next = None)
       /\ is_front(d) <=> (d.prev = None)
  /\ \A s \in Slots :
       cur[s] # NoCursor =>
         /\ (move("move_next", cur[s], store, NoFault).tag = "Edge") <=> is_back(cur[s].item)
         /\ (move("move_previous", cur[s], store, NoFault).tag = "Edge") <=> is_front(cur[s].item)
  /\ last.op = "move_next" => ((last.tag = "Edge") <=> is_back(last.before.item))
  /\ last.op = "move_previous" => ((last.tag = "Edge") <=> is_front(last.before.item))

\* C15 witness: move_next has returned the edge outcome on a cursor whose
\* item is the back of its list but not the front.
C15_Witness ==
  /\ last.op = "move_next" /\ last.tag = "Edge"
  /\ is_back(cur[last.slot].item) /\ ~is_front(cur[last.slot].item)

\* C16: a move or a peek on an item whose neighbour identifier N is present
\* calls get_document once, with N, and never again: the call of move_next /
\* move_previous makes the one call and the poll of its future makes none,
\* leaving no future behind; a peek makes the one call. A failure of the
\* call is what the caller gets, also when the store holds the document and
\* a second attempt would have succeeded.
C16_OneFetchNoRetry ==
  /\ (last.op \in MoveOps /\ last.tag = "Pending") =>
       last.calls = <<NeighbourId(last.op, last.before.item)>>
  /\ (last.op \in MoveOps /\ last.tag \in {"Ok", "Err"}) =>
       /\ last.calls = <<>> /\ pend[last.slot] = NoFuture
       /\ LastFault # NoFault => (last.tag = "Err" /\ last.err = LastFault)
  /\ (last.op \in PeekOps /\ NeighbourId(last.op, last.before.item) # None) =>
       /\ last.calls = <<NeighbourId(last.op, last.before.item)>>
       /\ LastFault # NoFault => (last.tag = "Err" /\ last.err = LastFault)
  /\ \A s \in Slots, e \in Errors :
       cur[s] # NoCursor =>
         /\ \A op \in PeekOps :
              NeighbourId(op, cur[s].item) # None =>
                (peek(op, cur[s], store, e).tag = "Err" /\ peek(op, cur[s], store, e).err = e)
         /\ \A op \in MoveOps :
              NeighbourId(op, cur[s].item) # None =>
                move(op, cur[s], store, e) = [tag |-> "Err", cursor |-> cur[s], err |-> e]

\* C16 witness: get_previous has failed on its one call for a document the
\* store holds.
C16_Witness ==
  /\ last.op = "get_previous" /\ last.tag = "Err" /\ last.calls = <<last.id>>
  /\ Present(store, last.id) /\ last.id = get_previous_id(last.before.item)

\* The calls that open a cursor, read through it or traverse with it.
CursorOps == OpenOps \cup MoveOps \cup PeekOps \cup {"copied"}

\* C17: opening a cursor, reading through it and traversing never write: a
\* step of any of these calls leaves the map as it was, and the map changes
\* only in a step of write_document or write_documents.
C17_CursorCallsNeverWrite ==
  [][ /\ last'.op \in CursorOps => store' = store
      /\ store' # store => last'.op \in {"write_document", "write_documents"}
    ]_vars

\* C17 witness: a move has resolved on a cursor whose item the map no longer
\* holds as it was, and the map still holds the newer document.
C17_Witness ==
  /\ last.op \in MoveOps /\ last.tag = "Ok"
  /\ Present(store, get_id(last.before.item))
  /\ store[get_id(last.before.item)] # last.before.item

WriteOps == {"write_document", "write_documents"}

\* C18: a cursor's item is a snapshot. A write_document or write_documents
\* step changes no cursor and no pending move, also when it replaces the
\* document under a cursor's item's identifier; and a later move or peek on
\* the cursor follows the neighbour identifier of the item it holds: that is
\* the identifier fetched, "no neighbour" is returned exactly when the held
\* item has none, and a found neighbour is the map's document under it.
C18_ItemIsSnapshot ==
  [][ /\ last'.op \in WriteOps => (cur' = cur /\ pend' = pend)
      /\ (last'.op \in MoveOps \cup PeekOps) =>
           LET N == NeighbourId(last'.op, last'.before.item)
           IN /\ last'.id = N
              /\ (last'.tag \in {"None", "Edge"}) <=> (N = None)
              /\ last'.tag \in {"Some", "Ok"} => last'.after.item = store'[N]
    ]_vars

\* C18 witness: the map holds under id1 a document with no next neighbour,
\* and get_next on a cursor still holding the earlier document of id1 has
\* returned the cursor at that document's next neighbour.
C18_Witness ==
  /\ last.op = "get_next" /\ last.tag = "Some"
  /\ cur[last.src].item = doc1b /\ store[get_id(doc1b)] = doc1
  /\ cur[last.slot].item = store[get_next_id(doc1b)]

\* The fault the call of this step was run with.
StepFault(l) == IF l.faults = <<>> THEN NoFault ELSE l.faults[1]

\* C19: with several cursors of one collection in use and their moves and
\* peeks interleaved, a step of a move, peek or open on one caller variable
\* changes the cursor and the pending move of no other variable; and what a
\* completed step returns is what the call returns for that cursor and the
\* map alone, whatever the other variables hold.
C19_CursorsDoNotInterfere ==
  [][ /\ last'.op \in CursorOps =>
           \A u \in Slots :
             u # last'.slot => (cur'[u] = cur[u] /\ pend'[u] = pend[u])
      /\ (last'.op \in MoveOps /\ last'.tag \in {"Ok", "Err", "Edge"}) =>
           LET r == move(last'.op, last'.before, store, StepFault(last'))
           IN r.tag = last'.tag /\ r.cursor = cur'[last'.slot] /\ r.err = last'.err
      /\ (last'.op \in PeekOps /\ last'.tag \in {"Some", "None", "Err"}) =>
           LET r == peek(last'.op, last'.before, store, StepFault(last'))
           IN r.tag = last'.tag /\ r.cursor = cur'[last'.slot] /\ r.err = last'.err
    ]_vars

\* C19 witness: a move of one cursor has resolved, at another position than
\* it started from, while the move of another cursor is still in flight.
C19_Witness ==
  /\ last.op \in MoveOps /\ last.tag = "Ok"
  /\ cur[last.slot].item # last.before.item
  /\ \E u \in Slots :
       u # last.slot /\ pend[u] # NoFuture /\ pend[u].self.item # last.before.item

\* C20: when the batch fetch as a whole succeeds, get_items returns one
\* result per identifier, in input order, the result at index i being the
\* conversion applied to the i-th per-item fetch result, whatever happens at
\* the other indices; when the batch fetch fails as a whole, its error is
\* the outer error and there are no per-item results.
C20_GetItemsPerItem ==
  last.op = "get_items" =>
    /\ last.tag = "Ok" =>
         /\ Len(last.results) = Len(last.ids)
         /\ \A i \in DOMAIN last.ids :
              last.results[i] =
                try_into(StoreGet(store, last.ids[i], last.faults[i]), last.convs[i])
    /\ last.tag = "Err" => (last.results = <<>> /\ last.err \in Errors)
    /\ last.tag \in {"Ok", "Err", "Panic"}

\* C20 witness: of two identifiers the first one's conversion was rejected
\* and the second one's fetched document was converted.
C20_Witness ==
  /\ last.op = "get_items" /\ last.tag = "Ok" /\ Len(last.ids) = 2
  /\ last.results[1] = TryErr
  /\ last.results[2] = TryOk(Ok(store[last.ids[2]]))

\* No borrow of the map outlives the poll that took it, and no poll ever
\* finds the map borrowed: the Pending branch is never taken.
NoBorrowAcrossPolls ==
  /\ cell.running = 0 => cell.borrow = 0
  /\ cell.running # 0 => cell.tasks[cell.running].st = "polling"
  /\ \A t \in Tasks : cell.tasks[t].st # "parked"

\* C22 as claimed: in the in-memory store no borrow of the map is held
\* between polls, no future takes the Pending branch, and every
\* get_document, write_document and cursor move future completes the first
\* time it is polled: no poll ends without an output, and every future that
\* is still to be polled has an executor to poll it.
C22_EveryFutureCompletes ==
  /\ NoBorrowAcrossPolls
  /\ \A t \in Tasks :
       /\ cell.tasks[t].st # "panicked"
       /\ cell.tasks[t].st = "created" => ~panicked

\* C21: in the in-memory store, after any sequence of write_document and
\* write_documents calls every key the map holds is bound to a document whose
\* own identifier is that key; so a successful move or peek towards the
\* neighbour identifier N yields a cursor whose item's identifier is N.
C21_KeyIsOwnIdentifier ==
  /\ \A k \in Ids : Present(store, k) => get_id(store[k]) = k
  /\ (last.op \in MoveOps /\ last.tag = "Ok") =>
       /\ last.id = NeighbourId(last.op, last.before.item)
       /\ get_id(cur[last.slot].item) = last.id
  /\ (last.op \in PeekOps /\ last.tag = "Some") =>
       /\ last.id = NeighbourId(last.op, last.before.item)
       /\ get_id(cur[last.slot].item) = last.id

\* C21 witness: the map holds the later document of id1 and the document of
\* id4, and ref_previous has found the neighbour under the identifier the
\* cursor's item names.
C21_Witness ==
  /\ last.op = "ref_previous" /\ last.tag = "Some"
  /\ store[get_id(doc1b)] = doc1b /\ Present(store, get_id(doc4))
  /\ get_id(cur[last.slot].item) = get_previous_id(cur[last.src].item)

====
